---- MODULE Spec2Model ----
(***************************************************************************)
(* Model of the exact-cover solver of package dancinglinks                 *)
(* (src/dancinglinks.go, lines 1-353).                                     *)
(*                                                                         *)
(* Nodes.  Item nodes are named by their index 0..itemCount-1 and the      *)
(* blank anchor item dl.itemHead by -1.  Entry nodes are named <<o, p>>:   *)
(* the p-th entry (1-based) of option o (0-based, as in the source); the   *)
(* blank anchor entry item.head of item i is <<-1, i>>, so that the first  *)
(* component of an entry node is its `option` field (-1 for an anchor).    *)
(* The pointer fields left/right/up/down are functions over these names.   *)
(*                                                                         *)
(* Inputs.  New is applied to every itemCount in 0..MaxItems and every     *)
(* list of at most MaxOptions options, each option a list of at most       *)
(* MaxOptionLen pairwise different in-range item indices, in any order.    *)
(***************************************************************************)
EXTENDS Integers, Sequences, FiniteSets, TLC

MaxItems == 3

MaxOptions == 3

MaxOptionLen == 2

MaxForce == 2

MaxStop == 2

MaxCalls == 2

VARIABLES
    itemCount,  \* argument of New
    options,    \* argument of New: [0..O-1 -> Seq(item index)]; dl.options[o][p].item = options[o][p]
    dl,         \* the link state: left, right, up, down, choices, selected, deleted
    pc,         \* "idle" | "search" (inside the stage loop of GenerateSolutions) | "returned"
    stages,     \* local of GenerateSolutions: the stage stack, top last
    path,       \* local of GenerateSolutions: the decision path
    stopAt,     \* the yield callback: returns false on its stopAt-th invocation (0: never)
    yielded,    \* the paths passed to yield so far by the current call, in order
    keepGoing,  \* result of the last yield invocation of the current call
    entry,      \* dl at entry of the current call of GenerateSolutions
    calls,      \* number of calls of GenerateSolutions so far
    mem,        \* the slices of the current call: the arrays allocated, the slice
                \* header of `path`, the slice headers the callback received
    matrix,     \* argument of FromMatrix (<<>> when the matrix was built by New)
    result      \* what the last call returned, when it was a call of ToMatrix

vars == <<itemCount, options, dl, pc, stages, path, stopAt, yielded, keepGoing, entry, calls,
          mem, matrix, result>>

----------------------------------------------------------------------------
(* Helpers on sequences *)

Range(s) == {s[j] : j \in 1..Len(s)}

\* intSliceContains(slice, element)
intSliceContains(slice, element) == \E j \in 1..Len(slice) : slice[j] = element

\* sequences of length at most n of pairwise different elements of S
RECURSIVE InjSeqs(_, _)
InjSeqs(S, n) ==
    IF n = 0 THEN {<<>>}
    ELSE LET shorter == InjSeqs(S, n - 1)
         IN  shorter \cup
             {Append(sx[1], sx[2]) :
                 sx \in {ty \in shorter \X S : Len(ty[1]) = n - 1 /\ ty[2] \notin Range(ty[1])}}

----------------------------------------------------------------------------
(* Node names *)

\* dl.itemHead
itemHead == -1

\* item.head of item i
head(i) == <<-1, i>>

\* entry.item of the entry node e = <<o, p>>
ItemOf(opts, e) == opts[e[1]][e[2]]

ItemNodes(I) == (-1)..(I - 1)

EntryNodes(I, opts) ==
    {head(i) : i \in 0..(I - 1)} \cup
    UNION {{<<o, p>> : p \in 1..Len(opts[o])} : o \in DOMAIN opts}

----------------------------------------------------------------------------
(* New: src/dancinglinks.go 52-114 *)

\* the entries created for item i by options o, o+1, ..., in creation order
RECURSIVE NewColumn(_, _, _)
NewColumn(opts, i, o) ==
    IF o \notin DOMAIN opts THEN <<>>
    ELSE SelectSeq([p \in 1..Len(opts[o]) |-> <<o, p>>],
                   LAMBDA e : opts[o][e[2]] = i)
         \o NewColumn(opts, i, o + 1)

\* the column list of item i as New leaves it: anchor first, then the entries
NewChain(opts, i) == <<head(i)>> \o NewColumn(opts, i, 0)

ChainOf(opts, e) ==
    IF e[1] = -1 THEN NewChain(opts, e[2]) ELSE NewChain(opts, ItemOf(opts, e))

IndexIn(chain, e) == CHOOSE j \in 1..Len(chain) : chain[j] = e

New(I, opts) ==
    [ left    |-> [n \in ItemNodes(I) |-> IF n = itemHead THEN I - 1 ELSE n - 1],
      right   |-> [n \in ItemNodes(I) |-> IF n = I - 1 THEN itemHead ELSE n + 1],
      up      |-> [e \in EntryNodes(I, opts) |->
                     LET chain == ChainOf(opts, e)
                         j == IndexIn(chain, e)
                     IN  IF j = 1 THEN chain[Len(chain)] ELSE chain[j - 1]],
      down    |-> [e \in EntryNodes(I, opts) |->
                     LET chain == ChainOf(opts, e)
                         j == IndexIn(chain, e)
                     IN  IF j = Len(chain) THEN chain[1] ELSE chain[j + 1]],
      choices |-> [n \in ItemNodes(I) |->
                     IF n = itemHead THEN 0 ELSE Len(NewColumn(opts, n, 0))],
      selected |-> <<>>,
      deleted  |-> <<>> ]

----------------------------------------------------------------------------
(* chooseOption: src/dancinglinks.go 193-232.  The operators work on a     *)
(* record w = [dl |-> link state, deleted |-> the log *deleted].           *)

\* an unlink that bypasses the item in the leftward direction only
UnlinkItem_LeftOnly(d, item) == [d EXCEPT !.left[d.right[item]] = d.left[item]]

\* lines 204-205
UnlinkItem(d, item) ==
    LET d1 == [d EXCEPT !.right[d.left[item]] = d.right[item]]
    IN  [d1 EXCEPT !.left[d1.right[item]] = d1.left[item]]

\* an unlink that leaves the item's counter alone
UnlinkEntry_NoCount(d, e) ==
    LET d1 == [d EXCEPT !.down[d.up[e]] = d.down[e]]
    IN  [d1 EXCEPT !.up[d1.down[e]] = d1.up[e]]

\* lines 223-228
UnlinkEntry(d, e) ==
    LET d1 == [d EXCEPT !.down[d.up[e]] = d.down[e]]
        d2 == [d1 EXCEPT !.up[d1.down[e]] = d1.up[e]]
    IN  [d2 EXCEPT !.choices[ItemOf(options, e)] = @ - 1]

\* a deletion that unlinks the first entry of the option only
DeleteOption_FirstEntryOnly(d, o, p) ==
    IF p > Len(options[o]) THEN d ELSE UnlinkEntry(d, <<o, p>>)

\* lines 222-229: entries p, p+1, ... of option o
RECURSIVE DeleteOption(_, _, _)
DeleteOption(d, o, p) ==
    IF p > Len(options[o]) THEN d
    ELSE DeleteOption(UnlinkEntry(d, <<o, p>>), o, p + 1)

\* a walk that deletes the conflicting options without recording them
RECURSIVE DeleteConflicts_NoLog(_, _, _)
DeleteConflicts_NoLog(w, conflict, hd) ==
    IF conflict = hd THEN w
    ELSE LET w2 == [w EXCEPT !.dl = DeleteOption(w.dl, conflict[1], 1)]
         IN  DeleteConflicts_NoLog(w2, w2.dl.down[conflict], hd)

\* lines 209-230: the walk down the column of an item, from entry `conflict`
RECURSIVE DeleteConflicts(_, _, _)
DeleteConflicts(w, conflict, hd) ==
    IF conflict = hd THEN w
    ELSE IF intSliceContains(w.deleted, conflict[1])
         THEN DeleteConflicts(w, w.dl.down[conflict], hd)
         ELSE LET w2 == [dl      |-> DeleteOption(w.dl, conflict[1], 1),
                         deleted |-> Append(w.deleted, conflict[1])]
              IN  DeleteConflicts(w2, w2.dl.down[conflict], hd)

\* lines 200-231: entries p, p+1, ... of option index
RECURSIVE CoverItems(_, _, _)
CoverItems(w, index, p) ==
    IF p > Len(options[index]) THEN w
    ELSE LET item == options[index][p]
             w1 == [w EXCEPT !.dl = UnlinkItem(w.dl, item)]
             w2 == DeleteConflicts(w1, w1.dl.down[head(item)], head(item))
         IN  CoverItems(w2, index, p + 1)

chooseOption(d, index, deleted) ==
    CoverItems([dl |-> d, deleted |-> deleted], index, 1)

----------------------------------------------------------------------------
(* nextChoices: src/dancinglinks.go 323-344 *)

\* a scan that moves on to a later item of equal choices
RECURSIVE MinItem_LastOnTie(_, _, _)
MinItem_LastOnTie(d, item, first) ==
    IF item = itemHead THEN first
    ELSE MinItem_LastOnTie(d, d.right[item],
                           IF d.choices[item] <= d.choices[first] THEN item ELSE first)

\* lines 327-331
RECURSIVE MinItem(_, _, _)
MinItem(d, item, first) ==
    IF item = itemHead THEN first
    ELSE MinItem(d, d.right[item],
                 IF d.choices[item] < d.choices[first] THEN item ELSE first)

\* lines 339-341
RECURSIVE ColumnOptions(_, _, _)
ColumnOptions(d, choice, hd) ==
    IF choice = hd THEN <<>>
    ELSE <<choice[1]>> \o ColumnOptions(d, d.down[choice], hd)

\* the item nextChoices settles on (itemHead when the ring is empty)
FirstItem(d) == MinItem(d, d.right[itemHead], d.right[itemHead])

\* an oracle that returns the empty slice, not nil, on an empty ring
nextChoices_NeverNil(d) ==
    LET first == FirstItem(d)
    IN  [isNil |-> FALSE,
         list  |-> IF first = itemHead THEN <<>>
                   ELSE ColumnOptions(d, d.down[head(first)], head(first))]

\* an oracle that returns nil whenever it has no candidate
nextChoices_NilOnDeadEnd(d) ==
    LET first == FirstItem(d)
        list  == IF first = itemHead THEN <<>>
                 ELSE ColumnOptions(d, d.down[head(first)], head(first))
    IN  [isNil |-> list = <<>>, list |-> list]

\* the result: nil, or a (possibly empty) slice
nextChoices(d) ==
    LET first == FirstItem(d)
    IN  IF first = itemHead
        THEN [isNil |-> TRUE, list |-> <<>>]
        ELSE [isNil |-> FALSE,
              list  |-> ColumnOptions(d, d.down[head(first)], head(first))]

----------------------------------------------------------------------------
(* The cleanup stage of GenerateSolutions: src/dancinglinks.go 261-290 *)

\* an uncover that restores the right link only
RelinkItem_NoLeft(d, item) == [d EXCEPT !.right[d.left[item]] = item]

\* lines 273-274
RelinkItem(d, item) ==
    LET d1 == [d EXCEPT !.right[d.left[item]] = item]
    IN  [d1 EXCEPT !.left[d1.right[item]] = item]

\* an uncover that leaves the first item of the option unlinked
RECURSIVE UncoverItems_SkipFirst(_, _, _)
UncoverItems_SkipFirst(d, choice, p) ==
    IF p <= 1 THEN d
    ELSE UncoverItems_SkipFirst(RelinkItem(d, options[choice][p]), choice, p - 1)

\* lines 265-275: entries p, p-1, ..., 1 of option choice
RECURSIVE UncoverItems(_, _, _)
UncoverItems(d, choice, p) ==
    IF p = 0 THEN d
    ELSE UncoverItems(RelinkItem(d, options[choice][p]), choice, p - 1)

\* lines 284-288
RelinkEntry(d, e) ==
    LET d1 == [d EXCEPT !.down[d.up[e]] = e]
        d2 == [d1 EXCEPT !.up[d1.down[e]] = e]
    IN  [d2 EXCEPT !.choices[ItemOf(options, e)] = @ + 1]

\* lines 283-289: entries p, p+1, ... of option o
RECURSIVE RestoreOption(_, _, _)
RestoreOption(d, o, p) ==
    IF p > Len(options[o]) THEN d
    ELSE RestoreOption(RelinkEntry(d, <<o, p>>), o, p + 1)

\* lines 278-290: options deleted[j], deleted[j-1], ..., deleted[1]
RECURSIVE RestoreDeleted(_, _, _)
RestoreDeleted(d, deleted, j) ==
    IF j = 0 THEN d
    ELSE RestoreDeleted(RestoreOption(d, deleted[j], 1), deleted, j - 1)

\* lines 265-290
cleanup(d, stage) ==
    RestoreDeleted(UncoverItems(d, stage.choice, Len(options[stage.choice])),
                   stage.deleted, Len(stage.deleted))

----------------------------------------------------------------------------
(* Stages and steps: src/dancinglinks.go 5-8, 235-242 *)

\* searchStage{choice, choices}; the nil slice of the root stage is <<>>
searchStage(choice, choices) ==
    [kind |-> "search", choice |-> choice, choices |-> choices]

cleanupStage(choice, deleted) ==
    [kind |-> "cleanup", choice |-> choice, deleted |-> deleted]

\* Step{option, choices}
Step(option, choices) == [option |-> option, choices |-> choices]

\* a push loop that stops one candidate short
PushChoices_SkipLast(stack, choices) ==
    stack \o [i \in 1..(Len(choices) - 1) |->
                 [kind |-> "search", choice |-> choices[Len(choices) - i],
                  choices |-> choices]]

\* a push loop that pushes the first candidate first, so that it is tried last
PushChoices_Forward(stack, choices) ==
    stack \o [i \in 1..Len(choices) |->
                 [kind |-> "search", choice |-> choices[i], choices |-> choices]]

\* a push loop that hands each stage the candidates up to its own only
PushChoices_Sliced(stack, choices) ==
    stack \o [i \in 1..Len(choices) |->
                 [kind |-> "search", choice |-> choices[Len(choices) + 1 - i],
                  choices |-> SubSeq(choices, 1, Len(choices) + 1 - i)]]

\* a push loop that re-enters the search when it has no candidate
PushChoices_RetryDeadEnd(stack, choices) ==
    IF choices = <<>>
    THEN Append(stack, searchStage(-1, <<>>))
    ELSE stack \o [i \in 1..Len(choices) |->
                      searchStage(choices[Len(choices) + 1 - i], choices)]

\* lines 315-318: the stages pushed for the candidates, last candidate first
PushChoices(stack, choices) ==
    stack \o [i \in 1..Len(choices) |->
                 searchStage(choices[Len(choices) + 1 - i], choices)]

\* a callback that never asks the search to stop
yield_NeverFalse(count) == TRUE

\* the caller's yield: false on invocation number stopAt, true otherwise
yield(count) == count # stopAt

\* a yield result that is ignored
AfterYield_NoReturn(keep) == "search"

\* lines 307-311: after yield, `return` on false, `break` (next iteration) on true
AfterYield(keep) == IF keep THEN "search" ELSE "returned"

----------------------------------------------------------------------------
(* Slices of Steps.  A slice header is [addr, len]; addr names its backing *)
(* array in heap (0: the zero-length array of the literal []Step{}), whose  *)
(* length is the capacity of the slice.  Every slice here starts at the     *)
(* first element of its array.                                              *)

\* []Step{}: lines 253, 303
EmptySlice == [addr |-> 0, len |-> 0]

\* the zero value of Step, filling the unused capacity of a new array
zeroStep == Step(0, <<>>)

ArrayAt(heap, addr) == IF addr = 0 THEN <<>> ELSE heap[addr]

\* the elements seen through a slice header
Elements(heap, ref) == SubSeq(ArrayAt(heap, ref.addr), 1, ref.len)

Capacity(heap, ref) == Len(ArrayAt(heap, ref.addr))

\* the capacity append allocates when the old one is too small: twice the
\* old one, or the needed length when that is larger
GrowCap(oldCap, need) == IF need > 2 * oldCap THEN need ELSE 2 * oldCap

\* append(ref, xs...): writes in place when the capacity suffices, otherwise
\* moves the elements to a new array; the old array stays as it was
appendSteps(heap, ref, xs) ==
    LET n   == ref.len + Len(xs)
        old == ArrayAt(heap, ref.addr)
        put(i) == IF i <= ref.len THEN old[i]
                  ELSE IF i <= n THEN xs[i - ref.len]
                  ELSE IF i <= Len(old) THEN old[i] ELSE zeroStep
    IN  IF xs = <<>> THEN [heap |-> heap, ref |-> ref]
        ELSE IF n <= Len(old)
        THEN [heap |-> [heap EXCEPT ![ref.addr] = [i \in 1..Len(old) |-> put(i)]],
              ref  |-> [addr |-> ref.addr, len |-> n]]
        ELSE [heap |-> Append(heap, [i \in 1..GrowCap(Len(old), n) |-> put(i)]),
              ref  |-> [addr |-> Len(heap) + 1, len |-> n]]

\* a yield argument that is the slice `path` itself
PathCopy_Alias(heap, ref) == [heap |-> heap, ref |-> ref]

\* line 303: append([]Step{}, path...), the argument of yield
PathCopy(heap, ref) == appendSteps(heap, EmptySlice, Elements(heap, ref))

\* line 253: path := []Step{}; lines 169, 178: nothing received yet
NewMem == [heap |-> <<>>, path |-> EmptySlice, covers |-> <<>>]

\* line 298: path = append(path, Step{...})
PushStep(m, step) ==
    LET r == appendSteps(m.heap, m.path, <<step>>)
    IN  [m EXCEPT !.heap = r.heap, !.path = r.ref]

\* line 262: path = path[:len(path)-1]
PopStep(m) == [m EXCEPT !.path.len = @ - 1]

\* lines 303, 171, 180: the callback keeps the slice it is handed
Receive(m) ==
    LET r == PathCopy(m.heap, m.path)
    IN  [m EXCEPT !.heap = r.heap, !.covers = Append(@, r.ref)]

----------------------------------------------------------------------------
(* ToMatrix *)

\* lines 139-144: the items linked in the item ring, in ring order
RECURSIVE RingFrom(_, _)
RingFrom(d, item) ==
    IF item = itemHead THEN <<>> ELSE <<item>> \o RingFrom(d, d.right[item])

RingItems(d) == RingFrom(d, d.right[itemHead])

\* an index map that counts before it stores
ItemIndex_FromOne(ring, item) ==
    IF \E c \in 1..Len(ring) : ring[c] = item
    THEN CHOOSE c \in 1..Len(ring) : ring[c] = item
    ELSE 0

\* lines 139-144, 151: items[entry.item], the index stored for an item of the
\* ring; the lookup of an item that is not a key of the map gives 0
ItemIndex(ring, item) ==
    IF \E c \in 1..Len(ring) : ring[c] = item
    THEN (CHOOSE c \in 1..Len(ring) : ring[c] = item) - 1
    ELSE 0

NoResult == [called |-> FALSE, panic |-> FALSE, mat |-> <<>>]

\* lines 138-157; row[k] = true with k >= len(row) panics (index out of
\* range) and no matrix is returned
ToMatrix(d) ==
    LET ring    == RingItems(d)
        n       == Len(ring)
        cols(o) == {ItemIndex(ring, options[o][p]) : p \in 1..Len(options[o])}
    IN  IF \E o \in DOMAIN options : \E k \in cols(o) : k >= n
        THEN [called |-> TRUE, panic |-> TRUE, mat |-> <<>>]
        ELSE [called |-> TRUE, panic |-> FALSE,
              mat |-> [r \in 1..Cardinality(DOMAIN options) |->
                          [c \in 1..n |-> (c - 1) \in cols(r - 1)]]]

----------------------------------------------------------------------------
(* The inputs of New *)

OptionLists(I) ==
    UNION {[0..(n - 1) -> InjSeqs(0..(I - 1), MaxOptionLen)] : n \in 0..MaxOptions}

Init ==
    /\ itemCount \in 0..MaxItems
    /\ options \in OptionLists(itemCount)
    /\ dl = New(itemCount, options)
    /\ pc = "idle"
    /\ stages = <<>>
    /\ path = <<>>
    /\ stopAt = 0
    /\ yielded = <<>>
    /\ keepGoing = TRUE
    /\ entry = dl
    /\ calls = 0
    /\ mem = NewMem
    /\ matrix = <<>>
    /\ result = NoResult

\* ForceOptions(index): src/dancinglinks.go 186-191, one index of the call
ForceOptions(index) ==
    /\ pc \in {"idle", "returned"}
    /\ Len(dl.selected) < MaxForce
    /\ LET d1 == [dl EXCEPT !.selected = Append(@, index)]
           w  == chooseOption(d1, index, d1.deleted)
       IN  dl' = [w.dl EXCEPT !.deleted = w.deleted]
    /\ pc' = "idle"
    /\ result' = NoResult
    /\ UNCHANGED <<itemCount, options, stages, path, stopAt, yielded, keepGoing,
                   entry, calls, mem, matrix>>

\* GenerateSolutions, lines 248-253: entry of a call whose yield returns
\* false on invocation number stop (0: always true, as AllSolutions; 1: as
\* AnySolution)
GenerateSolutions(stop) ==
    /\ pc \in {"idle", "returned"}
    /\ calls < MaxCalls
    /\ stages' = <<searchStage(-1, <<>>)>>
    /\ path' = <<>>
    /\ pc' = "search"
    /\ stopAt' = stop
    /\ yielded' = <<>>
    /\ keepGoing' = TRUE
    /\ entry' = dl
    /\ calls' = calls + 1
    /\ mem' = NewMem
    /\ result' = NoResult
    /\ UNCHANGED <<itemCount, options, dl, matrix>>

\* one iteration of the stage loop that pops a cleanupStage: lines 255-290
CleanupStage ==
    /\ pc = "search"
    /\ stages # <<>>
    /\ LET stage == stages[Len(stages)]
       IN  /\ stage.kind = "cleanup"
           /\ stages' = SubSeq(stages, 1, Len(stages) - 1)
           /\ path' = SubSeq(path, 1, Len(path) - 1)
           /\ mem' = PopStep(mem)
           /\ dl' = cleanup(dl, stage)
    /\ UNCHANGED <<itemCount, options, pc, stopAt, yielded, keepGoing, entry, calls,
                   matrix, result>>

\* one iteration of the stage loop that pops a searchStage: lines 255-259,
\* 292-319
SearchStage ==
    /\ pc = "search"
    /\ stages # <<>>
    /\ LET stage   == stages[Len(stages)]
           popped  == SubSeq(stages, 1, Len(stages) - 1)
           covers  == stage.choice # -1
           w       == chooseOption(dl, stage.choice, <<>>)
           d1      == IF covers THEN w.dl ELSE dl
           stages1 == IF covers
                      THEN Append(popped, cleanupStage(stage.choice, w.deleted))
                      ELSE popped
           path1   == IF covers
                      THEN Append(path, Step(stage.choice, stage.choices))
                      ELSE path
           mem1    == IF covers
                      THEN PushStep(mem, Step(stage.choice, stage.choices))
                      ELSE mem
           choices == nextChoices(d1)
       IN  /\ stage.kind = "search"
           /\ dl' = d1
           /\ path' = path1
           /\ IF choices.isNil
              THEN /\ yielded' = Append(yielded, path1)
                   /\ mem' = Receive(mem1)
                   /\ keepGoing' = yield(Len(yielded) + 1)
                   /\ stages' = stages1
                   /\ pc' = AfterYield(keepGoing')
              ELSE /\ stages' = PushChoices(stages1, choices.list)
                   /\ mem' = mem1
                   /\ UNCHANGED <<yielded, keepGoing, pc>>
    /\ UNCHANGED <<itemCount, options, stopAt, entry, calls, matrix, result>>

\* the stage loop ends: line 255 with an empty stack, line 321
Return ==
    /\ pc = "search"
    /\ stages = <<>>
    /\ pc' = "returned"
    /\ UNCHANGED <<itemCount, options, dl, stages, path, stopAt, yielded, keepGoing,
                   entry, calls, mem, matrix, result>>

\* a call of ToMatrix between two other calls: lines 138-157
ToMatrixCall ==
    /\ pc \in {"idle", "returned"}
    /\ result' = ToMatrix(dl)
    /\ UNCHANGED <<itemCount, options, dl, pc, stages, path, stopAt, yielded, keepGoing,
                   entry, calls, mem, matrix>>

Next ==
    \/ \E index \in DOMAIN options : ForceOptions(index)
    \/ \E stop \in 0..MaxStop : GenerateSolutions(stop)
    \/ CleanupStage
    \/ SearchStage
    \/ Return
    \/ ToMatrixCall

Spec == Init /\ [][Next]_vars

\* the state before New is called: no matrix is built yet
InitLive ==
    /\ itemCount = 0
    /\ options = <<>>
    /\ dl = New(0, <<>>)
    /\ pc = "start"
    /\ stages = <<>>
    /\ path = <<>>
    /\ stopAt = 0
    /\ yielded = <<>>
    /\ keepGoing = TRUE
    /\ entry = dl
    /\ calls = 0
    /\ mem = NewMem
    /\ matrix = <<>>
    /\ result = NoResult

\* the call New(I, opts): lines 52-114
NewCall ==
    /\ pc = "start"
    /\ \E I \in 0..MaxItems : \E opts \in OptionLists(I) :
           /\ itemCount' = I
           /\ options' = opts
           /\ dl' = New(I, opts)
           /\ entry' = New(I, opts)
    /\ pc' = "idle"
    /\ UNCHANGED <<stages, path, stopAt, yielded, keepGoing, calls, mem, matrix, result>>

\* New, then ForceOptions calls, then one call of GenerateSolutions
NextLive ==
    \/ NewCall
    \/ \E index \in DOMAIN options : calls = 0 /\ pc = "idle" /\ ForceOptions(index)
    \/ \E stop \in 0..MaxStop : calls = 0 /\ pc = "idle" /\ GenerateSolutions(stop)
    \/ CleanupStage
    \/ SearchStage
    \/ Return

\* line 255: the loop condition holds
Iterating == pc = "search" /\ stages # <<>>

\* an iteration that would leave every variable as it is: it pops a root
\* stage, covers nothing, yields nothing and pushes the same stack back
Stalled ==
    /\ Iterating
    /\ stages[Len(stages)].kind = "search"
    /\ stages[Len(stages)].choice = -1
    /\ ~nextChoices(dl).isNil
    /\ PushChoices(SubSeq(stages, 1, Len(stages) - 1), nextChoices(dl).list) = stages

\* ENABLED <<CleanupStage \/ SearchStage>>_vars, as a state predicate
CanIterate == Iterating /\ ~Stalled

\* the stage loop of a running call keeps iterating: lines 255-321 are one
\* sequential loop whose every iteration completes.  The second conjunct is
\* WF_vars(CleanupStage \/ SearchStage) with its ENABLED written as CanIterate
Progress ==
    /\ WF_vars(Return)
    /\ ([]<>(~CanIterate) \/ []<><<CleanupStage \/ SearchStage>>_vars)

SpecLive == InitLive /\ [][NextLive]_vars /\ Progress

----------------------------------------------------------------------------
(* FromMatrix *)

\* lines 126-131: the indices j of the cells of row that are true, from
\* index j on, in the order of the loop
RECURSIVE TrueColumns(_, _)
TrueColumns(row, j) ==
    IF j >= Len(row) THEN <<>>
    ELSE (IF row[j + 1] THEN <<j>> ELSE <<>>) \o TrueColumns(row, j + 1)

\* an item count that every row overwrites
RECURSIVE MaxRowLen_LastRow(_, _, _)
MaxRowLen_LastRow(m, i, count) ==
    IF i >= Len(m) THEN count
    ELSE MaxRowLen_LastRow(m, i + 1, Len(m[i + 1]))

\* lines 117, 120-124: itemCount after the rows from index i on
RECURSIVE MaxRowLen(_, _, _)
MaxRowLen(m, i, count) ==
    IF i >= Len(m) THEN count
    ELSE MaxRowLen(m, i + 1, IF Len(m[i + 1]) > count THEN Len(m[i + 1]) ELSE count)

\* lines 116-136: the arguments FromMatrix passes to New, and what New builds
FromMatrix(m) ==
    LET count == MaxRowLen(m, 0, 0)
        opts  == [i \in 0..(Len(m) - 1) |-> TrueColumns(m[i + 1], 0)]
    IN  [itemCount |-> count, options |-> opts, dl |-> New(count, opts)]

\* the rows of a matrix: lists of at most MaxItems cells
Rows == UNION {[1..n -> BOOLEAN] : n \in 0..MaxItems}

\* the arguments of FromMatrix: at most MaxOptions rows, not all of one length
Matrices == UNION {[1..n -> Rows] : n \in 0..MaxOptions}

\* the state before FromMatrix is called: no matrix is built yet
InitFM ==
    /\ matrix \in Matrices
    /\ itemCount = 0
    /\ options = <<>>
    /\ dl = New(0, <<>>)
    /\ pc = "start"
    /\ stages = <<>>
    /\ path = <<>>
    /\ stopAt = 0
    /\ yielded = <<>>
    /\ keepGoing = TRUE
    /\ entry = dl
    /\ calls = 0
    /\ mem = NewMem
    /\ result = NoResult

\* the call FromMatrix(matrix)
FromMatrixCall ==
    /\ pc = "start"
    /\ LET r == FromMatrix(matrix)
       IN  /\ itemCount' = r.itemCount
           /\ options' = r.options
           /\ dl' = r.dl
           /\ entry' = r.dl
    /\ pc' = "idle"
    /\ UNCHANGED <<stages, path, stopAt, yielded, keepGoing, calls, mem, matrix, result>>

NextFM == FromMatrixCall

SpecFM == InitFM /\ [][NextFM]_vars

----------------------------------------------------------------------------
(* Vocabulary of the properties *)

ActiveItems(d) == Range(RingItems(d))

\* the item set of option o
ItemSet(o) == Range(options[o])

\* the options of a path, in path order, and as a set
PathOptions(p) == [j \in 1..Len(p) |-> p[j].option]

OptionSet(p) == Range(PathOptions(p))

\* no two positions of the list of options seq name options that share an item
PairwiseDisjoint(seq) ==
    \A j, k \in 1..Len(seq) : j # k => ItemSet(seq[j]) \cap ItemSet(seq[k]) = {}

\* the current call of GenerateSolutions was entered on a matrix built by New
\* and changed by nothing but ForceOptions of pairwise disjoint options
FreshEntry == calls = 1 /\ PairwiseDisjoint(entry.selected)

\* the exact covers of the item set target: the sets of options whose item
\* sets partition target
ExactCovers(target) ==
    {S \in SUBSET (DOMAIN options) :
        /\ \A o \in S : ItemSet(o) # {}
        /\ \A o1, o2 \in S : o1 # o2 => ItemSet(o1) \cap ItemSet(o2) = {}
        /\ UNION {ItemSet(o) : o \in S} = target}

Returned == pc = "returned"

\* the call was entered after ForceOptions of an option that has items
ForcedNonEmpty == \E j \in 1..Len(entry.selected) : ItemSet(entry.selected[j]) # {}

\* some yielded path has at least two steps
DeepPath == \E j \in 1..Len(yielded) : Len(yielded[j]) >= 2

----------------------------------------------------------------------------
(* C1  Soundness.  On a matrix built by New and changed only by            *)
(* ForceOptions of pairwise disjoint options, every path passed to yield   *)
(* is an exact cover of the residual problem: the item sets of its options *)
(* are pairwise disjoint and their union is the set of items linked in the *)
(* item ring at call entry.                                                *)
C1_Soundness ==
    FreshEntry =>
        \A j \in 1..Len(yielded) :
            /\ PairwiseDisjoint(PathOptions(yielded[j]))
            /\ UNION {ItemSet(o) : o \in OptionSet(yielded[j])} = ActiveItems(entry)

C1_Witness ==
    /\ Returned /\ FreshEntry
    /\ ForcedNonEmpty
    /\ ActiveItems(entry) # {}
    /\ Len(yielded) >= 2
    /\ itemCount = MaxItems

(* C2  Completeness and uniqueness.  When a full enumeration (yield always *)
(* true) returns, the option sets of the yielded paths are exactly the     *)
(* exact covers of the items active at entry, and no two yielded paths     *)
(* have the same option set; options with equal item sets count as         *)
(* different options.                                                      *)
C2_CompleteUnique ==
    (Returned /\ FreshEntry /\ keepGoing) =>
        /\ {OptionSet(yielded[j]) : j \in 1..Len(yielded)} = ExactCovers(ActiveItems(entry))
        /\ \A j, k \in 1..Len(yielded) :
               j # k => OptionSet(yielded[j]) # OptionSet(yielded[k])

C2_Witness ==
    /\ Returned /\ FreshEntry /\ keepGoing
    /\ entry.selected = <<>>
    /\ Len(yielded) >= 2
    /\ DeepPath
    /\ \E o1, o2 \in DOMAIN options :
           /\ o1 # o2 /\ ItemSet(o1) = ItemSet(o2)
           /\ \E j, k \in 1..Len(yielded) :
                  o1 \in OptionSet(yielded[j]) /\ o2 \in OptionSet(yielded[k])

(* C3  Short-circuit restoration.  When GenerateSolutions returns because  *)
(* yield returned false, every item-ring link, every column link and every *)
(* choices counter equals its value at call entry.                         *)
C3_ShortCircuitRestores ==
    (Returned /\ FreshEntry /\ ~keepGoing) => dl = entry

(* C4  Short-circuit count.  Once yield has returned false the call has    *)
(* left the stage loop and yield is not invoked again by it: a yield that  *)
(* returns false on invocation number k is invoked at most k times,        *)
(* exactly k times when it has returned false, and it does return false    *)
(* when the problem has at least k exact covers.                           *)
C4_CountInv ==
    /\ ~keepGoing => (pc # "search" /\ Len(yielded) = stopAt)
    /\ stopAt > 0 => Len(yielded) <= stopAt
    /\ (Returned /\ FreshEntry /\ stopAt > 0
          /\ Cardinality(ExactCovers(ActiveItems(entry))) >= stopAt)
       => (Len(yielded) = stopAt /\ ~keepGoing)

C4_ShortCircuitCount ==
    /\ []C4_CountInv
    /\ [][(~keepGoing /\ calls' = calls) => yielded' = yielded]_vars

C4_Witness ==
    /\ Returned /\ FreshEntry
    /\ stopAt = 2
    /\ Len(yielded) = 2
    /\ Cardinality(ExactCovers(ActiveItems(entry))) >= 3

(* C5  Restoration after full enumeration.  When yield returned true on    *)
(* every invocation, GenerateSolutions returns with every item-ring link,  *)
(* every column link and every choices counter equal to its value at call  *)
(* entry; the effect of the earlier ForceOptions calls is part of that     *)
(* state: the forced options' items stay unlinked and the logs unchanged.  *)
C5_FullEnumerationRestores ==
    (Returned /\ FreshEntry /\ keepGoing) =>
        /\ dl = entry
        /\ \A j \in 1..Len(dl.selected) : ItemSet(dl.selected[j]) \cap ActiveItems(dl) = {}

C5_Witness ==
    /\ Returned /\ FreshEntry /\ keepGoing
    /\ ForcedNonEmpty
    /\ ActiveItems(entry) # {}
    /\ DeepPath

----------------------------------------------------------------------------
(* The depth-first search of the enumeration-order contract, on sets: A is *)
(* the set of items still to cover, V the set of options that share no     *)
(* item with an option taken so far.                                       *)

RECURSIVE SortSet(_)
SortSet(S) ==
    IF S = {} THEN <<>>
    ELSE LET m == CHOOSE x \in S : \A y \in S : x <= y
         IN  <<m>> \o SortSet(S \ {m})

RefCandidates(V, i) == {o \in V : i \in ItemSet(o)}

\* minimum number of candidates, leftmost item on a tie
RefItem(A, V) ==
    CHOOSE i \in A :
        \A j \in A :
            \/ Cardinality(RefCandidates(V, i)) < Cardinality(RefCandidates(V, j))
            \/ /\ Cardinality(RefCandidates(V, i)) = Cardinality(RefCandidates(V, j))
               /\ i <= j

\* the solution leaves below the node reached by prefix, as lists of options
RECURSIVE RefDFS(_, _, _)
RECURSIVE RefTry(_, _, _, _, _)
RefDFS(A, V, prefix) ==
    IF A = {} THEN <<prefix>>
    ELSE RefTry(A, V, prefix, SortSet(RefCandidates(V, RefItem(A, V))), 1)

RefTry(A, V, prefix, cands, n) ==
    IF n > Len(cands) THEN <<>>
    ELSE RefDFS(A \ ItemSet(cands[n]),
                {o \in V : ItemSet(o) \cap ItemSet(cands[n]) = {}},
                Append(prefix, cands[n]))
         \o RefTry(A, V, prefix, cands, n + 1)

\* the options that share no item with a forced option
Unforced ==
    {o \in DOMAIN options :
        \A j \in 1..Len(entry.selected) : ItemSet(o) \cap ItemSet(entry.selected[j]) = {}}

RefSolutions == RefDFS(ActiveItems(entry), Unforced, <<>>)

(* C6  Enumeration order.  The n-th path passed to yield is the n-th       *)
(* solution leaf of the depth-first search that branches on the item with  *)
(* the fewest candidates (leftmost on a tie) and tries the candidates in   *)
(* input order; the Steps of a path are in decision order from the root;   *)
(* a full enumeration returns all the leaves.                              *)
C6_EnumerationOrder ==
    FreshEntry =>
        /\ Len(yielded) <= Len(RefSolutions)
        /\ \A j \in 1..Len(yielded) : PathOptions(yielded[j]) = RefSolutions[j]
        /\ (Returned /\ keepGoing) => Len(yielded) = Len(RefSolutions)

C6_Witness ==
    /\ Returned /\ FreshEntry /\ keepGoing
    /\ Len(yielded) >= 2
    /\ DeepPath
    /\ 0 \in ActiveItems(entry)
    /\ 0 \notin ItemSet(yielded[1][1].option)
    /\ yielded[1][Len(yielded[1])].option < yielded[2][Len(yielded[2])].option

\* the link state after the covers of the first n steps of path p, from d
RECURSIVE Replay(_, _, _)
Replay(d, p, n) ==
    IF n = 0 THEN d
    ELSE chooseOption(Replay(d, p, n - 1), p[n].option, <<>>).dl

(* C7  Choices snapshot.  For each Step of a yielded path, the Step's      *)
(* choices list is the list of the options linked in the column of the     *)
(* item branched on, in column order, in the state where exactly the       *)
(* earlier Steps of the path are covered; the Step's option is in that     *)
(* list, so the list is not empty.                                         *)
C7_ChoicesSnapshot ==
    FreshEntry =>
        \A j \in 1..Len(yielded) :
            \A n \in 1..Len(yielded[j]) :
                LET step == yielded[j][n]
                    d    == Replay(entry, yielded[j], n - 1)
                    item == FirstItem(d)
                IN  /\ item # itemHead
                    /\ step.choices = ColumnOptions(d, d.down[head(item)], head(item))
                    /\ step.option \in Range(step.choices)
                    /\ step.choices # <<>>

C7_Witness ==
    /\ Returned /\ FreshEntry
    /\ Len(yielded) >= 2
    /\ \E j \in 1..Len(yielded) :
           /\ Len(yielded[j]) >= 2
           /\ Len(yielded[j][1].choices) >= 2
           /\ yielded[j][1].choices # yielded[j][2].choices

(* C8  Step carries the branched item.  Every Step of a yielded path has   *)
(* an item field holding the index of the item branched on at that         *)
(* decision, and the Step's option covers that item.                       *)
C8_StepHasItem ==
    FreshEntry =>
        \A j \in 1..Len(yielded) :
            \A n \in 1..Len(yielded[j]) :
                LET step == yielded[j][n]
                IN  /\ "item" \in DOMAIN step
                    /\ step.item = FirstItem(Replay(entry, yielded[j], n - 1))
                    /\ step.item \in ItemSet(step.option)

(* C9  Trivial problem.  If the item ring is empty at call entry (no       *)
(* items, or every item covered by forced options), yield is invoked       *)
(* exactly once, with an empty path.                                       *)
C9_Trivial ==
    (calls >= 1 /\ ActiveItems(entry) = {}) =>
        /\ yielded \in {<<>>, << <<>> >>}
        /\ Returned => yielded = << <<>> >>

C9_Witness ==
    /\ Returned
    /\ itemCount = MaxItems
    /\ ForcedNonEmpty
    /\ ActiveItems(entry) = {}
    /\ yielded = << <<>> >>

\* the frame entered on link state d is a dead end
DeadEnd(d) == FirstItem(d) # itemHead /\ d.choices[FirstItem(d)] = 0

C10_NoYield ==
    (FreshEntry /\ ExactCovers(ActiveItems(entry)) = {}) => yielded = <<>>

C10_DeadEndStep ==
    (/\ FreshEntry
     /\ pc = "search"
     /\ stages # <<>>
     /\ stages[Len(stages)].kind = "search"
     /\ DeadEnd(dl'))
    => LET stage  == stages[Len(stages)]
           popped == SubSeq(stages, 1, Len(stages) - 1)
       IN  /\ yielded' = yielded
           /\ pc' = "search"
           /\ IF stage.choice = -1
              THEN stages' = popped
              ELSE /\ Len(stages') = Len(stages)
                   /\ SubSeq(stages', 1, Len(popped)) = popped
                   /\ stages'[Len(stages')].kind = "cleanup"
                   /\ stages'[Len(stages')].choice = stage.choice

(* C10  Unsatisfiable problem.  When the residual problem has no exact     *)
(* cover, yield is never invoked; a search stage whose selected item has   *)
(* choices 0 pushes no candidate stage and invokes no yield, so the next   *)
(* stage popped is the cleanup of its own cover (or the stack is empty).   *)
C10_Unsatisfiable ==
    /\ []C10_NoYield
    /\ [][C10_DeadEndStep]_vars

C10_Witness ==
    /\ FreshEntry
    /\ ExactCovers(ActiveItems(entry)) = {}
    /\ pc = "search"
    /\ path # <<>>
    /\ DeadEnd(dl)
    /\ stages # <<>>
    /\ stages[Len(stages)].kind = "cleanup"
    /\ stages[Len(stages)].choice = path[Len(path)].option
    /\ yielded = <<>>

----------------------------------------------------------------------------
(* Forced options *)

AllItems == 0..(itemCount - 1)

\* the items of the options forced before the current call
ForcedItems == UNION {ItemSet(entry.selected[j]) : j \in 1..Len(entry.selected)}

(* C11  Forcing restricts the search to the residual.  After ForceOptions  *)
(* of pairwise disjoint options on a fresh matrix, no yielded path has a   *)
(* forced option or an option that shares an item with a forced option;    *)
(* each path together with the forced options covers every one of the      *)
(* itemCount items exactly once; a full enumeration yields exactly the     *)
(* exact covers of the items that no forced option covers.                 *)
C11_ForcedResidual ==
    FreshEntry =>
        /\ \A j \in 1..Len(yielded) :
               /\ \A o \in OptionSet(yielded[j]) :
                      /\ o \notin Range(entry.selected)
                      /\ ItemSet(o) \cap ForcedItems = {}
               /\ PairwiseDisjoint(PathOptions(yielded[j]) \o entry.selected)
               /\ UNION {ItemSet(o) : o \in OptionSet(yielded[j])} \cup ForcedItems
                      = AllItems
        /\ (Returned /\ keepGoing) =>
               {OptionSet(yielded[j]) : j \in 1..Len(yielded)}
                   = ExactCovers(AllItems \ ForcedItems)

C11_Witness ==
    /\ Returned /\ FreshEntry /\ keepGoing
    /\ ForcedNonEmpty
    /\ yielded # <<>>
    /\ yielded[1] # <<>>
    /\ \E o \in DOMAIN options :
           o \notin Range(entry.selected) /\ ItemSet(o) \cap ForcedItems # {}

----------------------------------------------------------------------------
(* The operations as functions of the link state *)

\* ForceOptions, lines 188-189: one index, on link state d
forceOption(d, index) ==
    LET d1 == [d EXCEPT !.selected = Append(@, index)]
        w  == chooseOption(d1, index, d1.deleted)
    IN  [w.dl EXCEPT !.deleted = w.deleted]

\* ForceOptions, lines 186-191: the first n of indices, on link state d
RECURSIVE forceOptions(_, _, _)
forceOptions(d, indices, n) ==
    IF n = 0 THEN d
    ELSE forceOption(forceOptions(d, indices, n - 1), indices[n])

\* GenerateSolutions, lines 255-321: the stage loop from link state d, stack
\* stk and path pth, with the paths in out yielded so far and a yield that
\* returns false on invocation number stop
RECURSIVE RunStages(_, _, _, _, _)
RunStages(d, stk, pth, out, stop) ==
    IF stk = <<>> THEN [dl |-> d, yielded |-> out, keepGoing |-> TRUE]
    ELSE LET stage  == stk[Len(stk)]
             popped == SubSeq(stk, 1, Len(stk) - 1)
         IN  IF stage.kind = "cleanup"
             THEN RunStages(cleanup(d, stage), popped,
                            SubSeq(pth, 1, Len(pth) - 1), out, stop)
             ELSE LET covers  == stage.choice # -1
                      w       == chooseOption(d, stage.choice, <<>>)
                      d1      == IF covers THEN w.dl ELSE d
                      stk1    == IF covers
                                 THEN Append(popped, cleanupStage(stage.choice, w.deleted))
                                 ELSE popped
                      pth1    == IF covers
                                 THEN Append(pth, Step(stage.choice, stage.choices))
                                 ELSE pth
                      choices == nextChoices(d1)
                      out1    == Append(out, pth1)
                  IN  IF choices.isNil
                      THEN IF AfterYield(Len(out1) # stop) = "returned"
                           THEN [dl |-> d1, yielded |-> out1, keepGoing |-> FALSE]
                           ELSE RunStages(d1, stk1, pth1, out1, stop)
                      ELSE RunStages(d1, PushChoices(stk1, choices.list), pth1, out, stop)

\* GenerateSolutions, lines 248-321, on link state d
generateSolutions(d, stop) == RunStages(d, <<searchStage(-1, <<>>)>>, <<>>, <<>>, stop)

\* AllSolutions, lines 168-175: the list covers
AllSolutions(d) == generateSolutions(d, 0).yielded

\* AnySolution, lines 177-184: the variable solution, nil unless yield ran
AnySolution(d) ==
    LET out == generateSolutions(d, 1).yielded
    IN  IF out = <<>> THEN [isNil |-> TRUE, path |-> <<>>]
        ELSE [isNil |-> FALSE, path |-> out[Len(out)]]

\* the actions and the functions describe the same program
FunctionsAgree ==
    /\ calls = 0 =>
           dl = forceOptions(New(itemCount, options), dl.selected, Len(dl.selected))
    /\ Returned =>
           LET r == generateSolutions(entry, stopAt)
           IN  r.dl = dl /\ r.yielded = yielded /\ r.keepGoing = keepGoing

(* C12  Forcing a duplicate.  For two options k and k' with the same item  *)
(* set, ForceOptions(k, k') on a fresh matrix leaves the residual problem  *)
(* of ForceOptions(k) alone: AllSolutions returns the same list of paths.  *)
C12_ForceDuplicate ==
    (/\ calls = 0
     /\ Len(dl.selected) = 2
     /\ dl.selected[1] # dl.selected[2]
     /\ ItemSet(dl.selected[1]) = ItemSet(dl.selected[2]))
    => AllSolutions(dl)
           = AllSolutions(forceOption(New(itemCount, options), dl.selected[1]))

\* the same, for duplicates that list their items in the same order
C12_SameOrder ==
    (/\ calls = 0
     /\ Len(dl.selected) = 2
     /\ dl.selected[1] # dl.selected[2]
     /\ options[dl.selected[1]] = options[dl.selected[2]])
    => AllSolutions(dl)
           = AllSolutions(forceOption(New(itemCount, options), dl.selected[1]))

----------------------------------------------------------------------------
(* Well-formed rings *)

\* the items reached from the anchor by following left
RECURSIVE RingBackFrom(_, _)
RingBackFrom(d, item) ==
    IF item = itemHead THEN <<>> ELSE <<item>> \o RingBackFrom(d, d.left[item])

\* the entry nodes reached from the anchor hd by following down, and up
RECURSIVE ColumnDown(_, _, _)
ColumnDown(d, e, hd) ==
    IF e = hd THEN <<>> ELSE <<e>> \o ColumnDown(d, d.down[e], hd)

RECURSIVE ColumnUp(_, _, _)
ColumnUp(d, e, hd) ==
    IF e = hd THEN <<>> ELSE <<e>> \o ColumnUp(d, d.up[e], hd)

\* N.left.right = N and N.right.left = N for the anchor and every item
\* reached from it, in both directions
ItemRingWellFormed(d) ==
    \A n \in {itemHead} \cup ActiveItems(d) \cup Range(RingBackFrom(d, d.left[itemHead])) :
        d.right[d.left[n]] = n /\ d.left[d.right[n]] = n

\* N.up.down = N and N.down.up = N for the anchor of item i and every entry
\* reached from it, in both directions
ColumnWellFormed(d, i) ==
    \A e \in {head(i)} \cup Range(ColumnDown(d, d.down[head(i)], head(i)))
                       \cup Range(ColumnUp(d, d.up[head(i)], head(i))) :
        d.down[d.up[e]] = e /\ d.up[d.down[e]] = e

WellFormed(d) ==
    /\ ItemRingWellFormed(d)
    /\ \A i \in AllItems : ColumnWellFormed(d, i)

C13_ForceStep ==
    (/\ calls = 0
     /\ \E k \in DOMAIN options :
            /\ dl'.selected = Append(dl.selected, k)
            /\ ItemSet(k) \cap ActiveItems(dl) = {})
    => /\ WellFormed(dl')
       /\ ActiveItems(dl') = ActiveItems(dl)
       /\ \A i \in ActiveItems(dl) : dl'.choices[i] = dl.choices[i]

(* C13  Forcing an option whose items are already unlinked.  If every item *)
(* of option k was unlinked from the item ring by earlier ForceOptions     *)
(* calls, ForceOptions(k) leaves the item ring and every column ring       *)
(* well-formed and leaves the set of active items and their choices        *)
(* counters unchanged.                                                     *)
C13_ForceUnlinked == [][C13_ForceStep]_vars

----------------------------------------------------------------------------
(* C14  AnySolution (the search whose yield returns false on its first     *)
(* invocation) returns the first path of AllSolutions on an identically    *)
(* built matrix, and returns nothing when the problem has no exact cover.  *)
C14_AnyIsFirst ==
    (calls = 1 /\ Returned /\ stopAt = 1)
    => LET all == AllSolutions(entry)
       IN  /\ IF all = <<>>
              THEN yielded = <<>>
              ELSE yielded # <<>> /\ yielded[Len(yielded)] = all[1]
           /\ (FreshEntry /\ ExactCovers(AllItems \ ForcedItems) = {})
              => yielded = <<>>

C14_Witness ==
    /\ calls = 1 /\ Returned /\ stopAt = 1
    /\ yielded # <<>>
    /\ Len(AllSolutions(entry)) >= 2
    /\ yielded[1] # <<>>

----------------------------------------------------------------------------
\* a separately built matrix with the same itemCount, options and forced options
Rebuilt == forceOptions(New(itemCount, options), entry.selected, Len(entry.selected))

(* C15  Determinism across runs.  The sequence of paths a search returns   *)
(* depends only on (itemCount, options, forced options): a search on the   *)
(* matrix, first or repeated, yields the same Step sequences in the same   *)
(* order as the same search on a separately built matrix.                  *)
C15_Deterministic ==
    Returned => yielded = generateSolutions(Rebuilt, stopAt).yielded

----------------------------------------------------------------------------
\* the variable path is the value of the slice `path`
PathIsSlice == path = Elements(mem.heap, mem.path)

(* C16  Each path passed to yield is a copy of the decision path: a path   *)
(* the caller retains is never changed by the later pushes and pops of     *)
(* Steps, so every stored path equals the path as it was when yielded,     *)
(* during the search and when it returns.                                  *)
C16_YieldedCopy ==
    /\ Len(mem.covers) = Len(yielded)
    /\ \A j \in 1..Len(mem.covers) : Elements(mem.heap, mem.covers[j]) = yielded[j]

C16_Witness ==
    /\ Returned /\ keepGoing
    /\ Len(mem.covers) >= 2
    /\ Len(yielded[1]) >= 2
    /\ yielded[1][1] # yielded[2][1]

----------------------------------------------------------------------------
\* cell (o, c) of a returned matrix, option o and column c counted from 0
Cell(o, c) == result.mat[o + 1][c + 1]

\* the returned matrix has one row per option and n columns
Shape(n) ==
    /\ Len(result.mat) = Cardinality(DOMAIN options)
    /\ \A o \in DOMAIN options : Len(result.mat[o + 1]) = n

(* C17  ToMatrix on a freshly built matrix returns one row per option in   *)
(* index order and itemCount columns, and cell (o, i) is true if and only  *)
(* if option o lists item i.                                               *)
C17_ToMatrixFresh ==
    (result.called /\ calls = 0 /\ dl.selected = <<>>)
    => /\ ~result.panic
       /\ Shape(itemCount)
       /\ \A o \in DOMAIN options : \A i \in AllItems :
              Cell(o, i) <=> i \in ItemSet(o)

C17_Witness ==
    /\ result.called /\ calls = 0 /\ dl.selected = <<>>
    /\ itemCount = MaxItems
    /\ \E o \in DOMAIN options : Cell(o, 0) /\ ~Cell(o, 1) /\ Cell(o, 2)
    /\ \E o \in DOMAIN options : \A i \in AllItems : ~Cell(o, i)

(* C18  ToMatrix on a residual matrix.  When some items are unlinked from  *)
(* the item ring after ForceOptions, ToMatrix returns one row per original *)
(* option in index order and one column per active item in ring order;     *)
(* cell (o, c) is true if and only if option o lists the c-th item of the  *)
(* ring, and items that are not active contribute to no cell.              *)
C18_ToMatrixResidual ==
    (result.called /\ calls = 0 /\ ActiveItems(dl) # AllItems)
    => /\ ~result.panic
       /\ Shape(Len(RingItems(dl)))
       /\ \A o \in DOMAIN options : \A c \in 1..Len(RingItems(dl)) :
              Cell(o, c - 1) <=> RingItems(dl)[c] \in ItemSet(o)

----------------------------------------------------------------------------
\* the largest row length of the matrix, 0 without rows
MaxLength == 
    IF matrix = <<>> THEN 0
    ELSE CHOOSE n \in {Len(matrix[r]) : r \in 1..Len(matrix)} :
             \A r \in 1..Len(matrix) : Len(matrix[r]) <= n

\* the ascending list of the column indices at which row r is true
AscendingTrue(r) ==
    SortSet({c \in 0..(Len(matrix[r + 1]) - 1) : matrix[r + 1][c + 1]})

(* C19  FromMatrix(M) builds the same matrix as New(I, options) with I the *)
(* maximum row length of M and options[r] the ascending list of the column *)
(* indices at which row r is true: the same item ring, column rings,       *)
(* option entry lists and choices counters.                                *)
C19_FromMatrix ==
    pc = "idle" =>
        LET opts == [r \in 0..(Len(matrix) - 1) |-> AscendingTrue(r)]
        IN  /\ itemCount = MaxLength
            /\ options = opts
            /\ dl = New(MaxLength, opts)

C19_Witness ==
    /\ pc = "idle"
    /\ Len(matrix) = 3
    /\ Len(matrix[1]) = 2 /\ Len(matrix[2]) = 3 /\ Len(matrix[3]) = 1
    /\ matrix[2][1] /\ ~matrix[2][2] /\ matrix[2][3]
    /\ matrix[1][2] /\ ~matrix[3][1]
    /\ dl.choices[2] = 1

----------------------------------------------------------------------------
\* option k is linked in d: it has items, all of them are in the item ring
\* and each of its entries is in the column ring of its item
Linked(d, k) ==
    /\ options[k] # <<>>
    /\ ItemSet(k) \subseteq ActiveItems(d)
    /\ \A p \in 1..Len(options[k]) :
           LET hd == head(options[k][p])
           IN  <<k, p>> \in Range(ColumnDown(d, d.down[hd], hd))

\* the cover of a search stage for option k, then the matching cleanup stage
CoverUncover(d, k) ==
    LET w == chooseOption(d, k, <<>>)
    IN  cleanup(w.dl, cleanupStage(k, w.deleted))

SameLinks(d, e) ==
    /\ d.left = e.left /\ d.right = e.right
    /\ d.up = e.up /\ d.down = e.down
    /\ d.choices = e.choices

(* C20  Cover/uncover round trip.  In every state reachable during a       *)
(* search and for every option k linked in that state, chooseOption(k)     *)
(* with a fresh deleted log followed by the matching cleanup stage         *)
(* restores every item's left/right links, every entry's up/down links and *)
(* every item's choices counter.                                           *)
C20_RoundTrip ==
    pc = "search" =>
        \A k \in DOMAIN options :
            Linked(dl, k) => SameLinks(CoverUncover(dl, k), dl)

\* the round trip in the searches entered with pairwise disjoint forced options
C20_Disjoint == PairwiseDisjoint(entry.selected) => C20_RoundTrip
----------------------------------------------------------------------------
\* the entries linked in the column ring of item i, top down
Column(d, i) == ColumnDown(d, d.down[head(i)], head(i))

ChoicesMatch(d) == \A i \in ActiveItems(d) : d.choices[i] = Len(Column(d, i))

(* C21  Choices-counter invariant.  After New, after each ForceOptions of  *)
(* pairwise disjoint options and after each completed cover or uncover of  *)
(* a search, every item linked in the item ring has choices equal to the   *)
(* number of entries linked in its column ring, the anchor excluded.       *)
C21_ChoicesCount == PairwiseDisjoint(dl.selected) => ChoicesMatch(dl)

C21_Witness ==
    /\ pc = "search" /\ path # <<>>
    /\ PairwiseDisjoint(dl.selected)
    /\ \E i \in ActiveItems(dl) :
           /\ dl.choices[i] = 1
           /\ entry.choices[i] = 2

----------------------------------------------------------------------------
Reverse(seq) == [j \in 1..Len(seq) |-> seq[Len(seq) + 1 - j]]

\* the forward and the backward traversal of the item ring and of the column
\* ring of every active item visit the same nodes, in opposite orders
SameTraversals(d) ==
    /\ RingBackFrom(d, d.left[itemHead]) = Reverse(RingItems(d))
    /\ \A i \in ActiveItems(d) :
           ColumnUp(d, d.up[head(i)], head(i)) = Reverse(Column(d, i))

ActiveWellFormed(d) ==
    /\ ItemRingWellFormed(d)
    /\ \A i \in ActiveItems(d) : ColumnWellFormed(d, i)
    /\ SameTraversals(d)

(* C22  Cyclic-ring invariant.  After New, after each ForceOptions of      *)
(* pairwise disjoint options and after each completed cover or uncover of  *)
(* a search, the item ring and the column ring of every active item are    *)
(* well-formed circular doubly-linked lists: N.left.right = N and          *)
(* N.right.left = N (N.up.down = N and N.down.up = N in a column) for      *)
(* every node reached from the anchor, and the forward and the backward    *)
(* traversal visit the same nodes.                                         *)
C22_CyclicRings == PairwiseDisjoint(dl.selected) => ActiveWellFormed(dl)

\* the rings before any search was short-circuited: before the first call,
\* and in a search entered on a matrix changed by nothing but ForceOptions
C22_BeforeShortCircuit ==
    (PairwiseDisjoint(dl.selected) /\ (calls = 0 \/ (calls = 1 /\ pc = "search")))
    => ActiveWellFormed(dl)

----------------------------------------------------------------------------
\* position c of the ring holds the first item of minimum choices
FirstMinimum(d, c) ==
    LET A == RingItems(d)
    IN  /\ \A j \in 1..Len(A) : d.choices[A[c]] <= d.choices[A[j]]
        /\ \A j \in 1..(c - 1) : d.choices[A[j]] > d.choices[A[c]]

\* the options of the entries linked in the column of item i, top down
OptionsOf(d, i) == [p \in 1..Len(Column(d, i)) |-> Column(d, i)[p][1]]

\* what the oracle is to report on d: nil exactly on an empty ring, otherwise
\* the column of the first item of minimum choices
OracleAgrees(d) ==
    LET A == RingItems(d)
        r == nextChoices(d)
    IN  /\ r.isNil <=> A = <<>>
        /\ A # <<>> =>
               \E c \in 1..Len(A) : FirstMinimum(d, c) /\ r.list = OptionsOf(d, A[c])

\* a stage-loop iteration that pops a searchStage: the oracle ran on dl'.
\* It yields exactly on an empty ring, otherwise the stage on top of the
\* stack is the first candidate of the oracle and carries the oracle's list;
\* the iteration of the root stage, which only asks the oracle, changes no
\* link and no counter
OracleStep ==
    (pc = "search" /\ stages # <<>> /\ stages[Len(stages)].kind = "search"
       /\ calls' = calls)
    => LET A == RingItems(dl')
           c == CHOOSE c \in 1..Len(A) : FirstMinimum(dl', c)
       IN  /\ (yielded' # yielded) <=> A = <<>>
           /\ (A # <<>> /\ OptionsOf(dl', A[c]) # <<>>) =>
                  /\ stages'[Len(stages')].kind = "search"
                  /\ stages'[Len(stages')].choices = OptionsOf(dl', A[c])
                  /\ stages'[Len(stages')].choice = OptionsOf(dl', A[c])[1]
           /\ stages[Len(stages)].choice = -1 => SameLinks(dl', dl)

(* C23  Branching oracle.  nextChoices reports done (nil) if and only if   *)
(* the item ring is empty; otherwise it returns the options linked in the  *)
(* column of the active item of minimum choices, the first such item in    *)
(* ring order on a tie, listed by walking the column downward from its     *)
(* anchor; it changes no link and no counter.                              *)
C23_Oracle == []OracleAgrees(dl) /\ [][OracleStep]_vars

C23_Witness ==
    /\ pc = "search" /\ stages # <<>>
    /\ stages[Len(stages)].kind = "search"
    /\ stages[Len(stages)].choices = nextChoices(dl).list
    /\ Len(RingItems(dl)) = 3
    /\ LET A == RingItems(dl)
       IN  /\ dl.choices[A[1]] > dl.choices[A[2]]
           /\ dl.choices[A[2]] = dl.choices[A[3]]
           /\ dl.choices[A[2]] >= 1

----------------------------------------------------------------------------
\* the rings are well-formed and the counters agree with the columns
Consistent(d) == ActiveWellFormed(d) /\ ChoicesMatch(d)

\* every entry of option o is linked in the column ring of its item
InColumns(d, o) ==
    \A p \in 1..Len(options[o]) : <<o, p>> \in Range(Column(d, options[o][p]))

\* the elements of seq outside S, in the order of seq
RECURSIVE Without(_, _)
Without(seq, S) ==
    IF seq = <<>> THEN <<>>
    ELSE (IF seq[1] \in S THEN <<>> ELSE <<seq[1]>>) \o Without(Tail(seq), S)

\* the linked options that share an item with option k, k included
Conflicts(d, k) ==
    {o \in DOMAIN options : Linked(d, o) /\ ItemSet(o) \cap ItemSet(k) # {}}

\* the effect of chooseOption(k, log) on d
CoverEffect(d, k, log) ==
    LET w     == chooseOption(d, k, log)
        C     == Conflicts(d, k)
        added == SubSeq(w.deleted, Len(log) + 1, Len(w.deleted))
    IN  /\ RingItems(w.dl) = Without(RingItems(d), ItemSet(k))
        /\ Len(w.deleted) >= Len(log)
        /\ SubSeq(w.deleted, 1, Len(log)) = log
        /\ Range(added) = C
        /\ Len(added) = Cardinality(C)
        /\ \A i \in AllItems :
               w.dl.choices[i] = d.choices[i] - Cardinality({o \in C : i \in ItemSet(o)})
        /\ \A o \in C : \A p \in 1..Len(options[o]) :
               <<o, p>> \notin Range(Column(w.dl, options[o][p]))
        /\ \A o \in DOMAIN options \ C : InColumns(d, o) => InColumns(w.dl, o)
        /\ \A i \in ItemSet(k) : Column(w.dl, i) = <<>>

(* C24  Effect of one cover.  chooseOption(k, log) applied in a consistent *)
(* state where k is linked unlinks exactly the items of k from the item    *)
(* ring and unlinks from their columns exactly the linked options that     *)
(* share an item with k, k included; each of them is appended to the log   *)
(* and unlinked once, the options disjoint from k keep their links, and    *)
(* afterwards the column of every item of k is empty.  The log is the      *)
(* fresh one of a search stage or the one ForceOptions passes.             *)
C24_CoverEffect ==
    Consistent(dl) =>
        \A k \in DOMAIN options :
            Linked(dl, k) => CoverEffect(dl, k, <<>>) /\ CoverEffect(dl, k, dl.deleted)

C24_Witness ==
    /\ pc = "search" /\ Consistent(dl)
    /\ \E k \in DOMAIN options :
           /\ Linked(dl, k)
           /\ Len(options[k]) = 2
           /\ Cardinality(Conflicts(dl, k)) = 3
           /\ Len(RingItems(dl)) = 3

----------------------------------------------------------------------------
\* the options of the cleanup stages of a stack, bottom first
RECURSIVE CleanupChoices(_)
CleanupChoices(stack) ==
    IF stack = <<>> THEN <<>>
    ELSE (IF stack[1].kind = "cleanup" THEN <<stack[1].choice>> ELSE <<>>)
         \o CleanupChoices(Tail(stack))

Unlinked(d) == AllItems \ ActiveItems(d)

PathItems == UNION {ItemSet(path[j].option) : j \in 1..Len(path)}

(* C25  Path/stack invariant of the search.  At every iteration of the     *)
(* stage loop of a GenerateSolutions started on a consistent matrix, the   *)
(* cleanup stages on the stack are as many as the Steps of the path and    *)
(* name the path's options in the same order; the path's options are       *)
(* pairwise disjoint, and the items absent from the item ring are exactly  *)
(* the items of the path's options and the items unlinked at call entry.   *)
C25_PathStack ==
    (pc = "search" /\ Consistent(entry))
    => /\ CleanupChoices(stages) = PathOptions(path)
       /\ PairwiseDisjoint(PathOptions(path))
       /\ Unlinked(dl) = Unlinked(entry) \cup PathItems
       /\ Unlinked(entry) \cap PathItems = {}

C25_Witness ==
    /\ pc = "search" /\ Consistent(entry)
    /\ Unlinked(entry) # {}
    /\ Len(path) = 2
    /\ PathItems # {}

----------------------------------------------------------------------------
\* the call has ended: the stack became empty, or yield returned false
Ended == Returned /\ (stages = <<>> \/ ~keepGoing)

(* C26  Termination.  For every matrix built by New, with or without       *)
(* forced options, and every yield callback that returns, a call of        *)
(* GenerateSolutions terminates: the stage stack eventually becomes empty  *)
(* or a false result of yield ends the call.                               *)
C26_Terminates == (pc = "search") ~> Ended

C26_Witness ==
    /\ Ended /\ FreshEntry
    /\ stages = <<>> /\ keepGoing
    /\ ForcedNonEmpty
    /\ Len(yielded) >= 1
    /\ DeepPath

====
